---- MODULE Spec2Model ----
(***************************************************************************)
(* A model of asciidraw (src/asciidraw.c): the canvas (struct Grid), the   *)
(* two rasterizers, the command handlers and the interpreter's load/eval   *)
(* cycle.  Characters are their integer codes.  Coordinates and sizes are  *)
(* C ints; the inputs are far too small for 32-bit overflow to matter.     *)
(***************************************************************************)
EXTENDS Integers, Sequences, FiniteSets

\* ---------------------------------------------------------------- bounds
MaxDim == 2          \* GRID takes width and height in 1..MaxDim
MaxRadius == 1       \* CIRCLE takes a radius in 0..MaxRadius
MaxSteps == 3        \* commands read by main's loop in one run

\* ----------------------------------------------------- program constants
SPACE == 32
STAR == 42
wrap == 10

\* The content of malloc'ed bytes nobody has written yet: not a character.
Indeterminate == 256
\* A pointer nobody has set (a slot of the malloc'ed pointer array that grid
\* never assigns): a row without any storage behind it.
Garbage == << >>
\* struct Grid's state pointer before grid() ran (zeroed by the initializer).
NULL == << >>

\* ------------------------------------------------------------- the inputs
Dims == 1..MaxDim
PointCoords == -1..MaxDim
ShapeCoords == 0..(MaxDim - 1)
Radii == 0..MaxRadius
CharArgs == {35, 298}
InvalidNames == {"FOO", "grid"}
\* What a read of memory outside the allocated storage may deliver.
Bytes == {SPACE, STAR}

VARIABLES
  state,        \* Grid.state: slot i -> row, row: j -> character code
  character,    \* Grid.character
  width,        \* Grid.width
  height,       \* Grid.height
  initialized,  \* Grid.initialized
  op,           \* Interpreter.op, the operation loaded last
  out,          \* what the last eval printed
  plotted,      \* the cells plot() assigned during the last eval
  fault,        \* the last eval accessed memory outside the allocated storage
  pc,           \* "ready" (in main's loop), "stopped" (exit), "crashed"
  steps         \* commands read so far

vars == <<state, character, width, height, initialized, op, out, plotted,
          fault, pc, steps>>

\* ------------------------------------------------------------- C helpers
abs(n) == IF n < 0 THEN -n ELSE n

\* C's % truncates toward zero.
CRem(a, b) == IF a >= 0 THEN a % b ELSE -((-a) % b)

\* (char)n on a build with 8-bit signed char.
ToChar(n) == ((n + 128) % 256) - 128

\* -------------------------------------------------------- Command model
COMMAND_STRING ==
  << <<"CHAR", "CHAR">>, <<"CIRCLE", "CIRCLE">>, <<"CLEAR", "CLEAR">>,
     <<"DISPLAY", "DISPLAY">>, <<"END", "END">>, <<"GRID", "GRID">>,
     <<"LINE", "LINE">>, <<"POINT", "POINT">>,
     <<"RECTANGLE", "RECTANGLE">> >>

command_from_string(str) ==
  IF \E i \in 1..Len(COMMAND_STRING) : COMMAND_STRING[i][2] = str
  THEN LET i == CHOOSE k \in 1..Len(COMMAND_STRING) :
                  /\ COMMAND_STRING[k][2] = str
                  /\ \A m \in 1..(k - 1) : COMMAND_STRING[m][2] # str
       IN COMMAND_STRING[i][1]
  ELSE "INVALID"

Operation(name, args) ==
  [name |-> name, cmd |-> command_from_string(name), args |-> args]

\* ----------------------------------------------------------- the storage
\* state[i][j] names allocated storage.
Valid(st, i, j) == i \in DOMAIN st /\ j \in DOMAIN st[i]

\* The assignment st[i][j] = c; outside the storage it changes no cell.
store(st, i, j, c) ==
  IF Valid(st, i, j) THEN [st EXCEPT ![i] = [@ EXCEPT ![j] = c]] ELSE st

\* The content of cell (x, y), which the code keeps in state[x][y].
CellOf(st, x, y) == IF Valid(st, x, y) THEN st[x][y] ELSE Indeterminate

in_bounds(x, y) == x >= 0 /\ x < width /\ y >= 0 /\ y < height

\* plot on storage st: the new storage.
plot(st, x, y) == IF ~in_bounds(x, y) THEN st ELSE store(st, x, y, character)

\* A sequence of plot calls, in order.
RECURSIVE plot_seq(_, _)
plot_seq(st, pts) ==
  IF pts = << >> THEN st
  ELSE plot_seq(plot(st, Head(pts)[1], Head(pts)[2]), Tail(pts))

\* The cells a sequence of plot calls assigns.
Assigned(pts) ==
  {pts[k] : k \in {n \in 1..Len(pts) : in_bounds(pts[n][1], pts[n][2])}}

\* Some call of the sequence writes outside the storage.
Faulty(st, pts) == \E p \in Assigned(pts) : ~Valid(st, p[1], p[2])

\* ------------------------------------------------------------ rasterizers
\* bresenham_line's loop from iteration i on: the plot calls it makes.
RECURSIVE bresenham_loop(_, _, _, _, _, _, _, _, _)
bresenham_loop(i, x1, y1, x2, y2, dx, dy, decide, pk) ==
  IF i > dx THEN << >>
  ELSE LET nx == IF x1 < x2 THEN x1 + 1 ELSE x1 - 1
           ny == IF pk < 0 THEN y1 ELSE (IF y1 < y2 THEN y1 + 1 ELSE y1 - 1)
           npk == IF pk < 0 THEN pk + 2 * dy ELSE pk + 2 * dy - 2 * dx
           p == IF decide THEN <<ny, nx>> ELSE <<nx, ny>>
       IN <<p>> \o bresenham_loop(i + 1, nx, ny, x2, y2, dx, dy, decide, npk)

bresenham_line(x1, y1, x2, y2, dx, dy, decide) ==
  bresenham_loop(0, x1, y1, x2, y2, dx, dy, decide, 2 * dy - dx)

\* The eight plot calls of one emission.
Octants(xc, yc, x, y) ==
  << <<xc + x, yc + y>>, <<xc - x, yc + y>>, <<xc + x, yc - y>>,
     <<xc - x, yc - y>>, <<xc + y, yc + x>>, <<xc - y, yc + x>>,
     <<xc + y, yc - x>>, <<xc - y, yc - x>> >>

RECURSIVE circle_loop(_, _, _, _, _)
circle_loop(xc, yc, x, y, d) ==
  IF ~(y >= x) THEN << >>
  ELSE LET nx == x + 1
           ny == IF d > 0 THEN y - 1 ELSE y
           nd == IF d > 0 THEN d + 4 * (nx - ny) + 10 ELSE d + 4 * nx + 6
       IN Octants(xc, yc, nx, ny) \o circle_loop(xc, yc, nx, ny, nd)

\* bresenham_circle starting one cell too far out (y = radius + 1).
bresenham_circle_wide(xc, yc, radius) ==
  Octants(xc, yc, 0, radius + 1) \o
  circle_loop(xc, yc, 0, radius + 1, 3 - 2 * radius)

bresenham_circle(xc, yc, radius) ==
  Octants(xc, yc, 0, radius) \o circle_loop(xc, yc, 0, radius, 3 - 2 * radius)

\* The plot calls of line() on an initialized grid.
line_plots(args) ==
  LET x1 == args[1]
      y1 == args[2]
      x2 == args[3]
      y2 == args[4]
      dx == abs(x2 - x1)
      dy == abs(y2 - y1)
  IN << <<x1, y1>> >> \o
     (IF dx > dy THEN bresenham_line(x1, y1, x2, y2, dx, dy, FALSE)
                 ELSE bresenham_line(y1, x1, y2, x2, dy, dx, TRUE))

\* The plot calls of rectangle()'s four line() calls.
rectangle_plots(args) ==
  LET x1 == args[1]
      y1 == args[2]
      x2 == args[3]
      y2 == args[4]
  IN line_plots(<<x1, y1, x1 + abs(x2 - x1), y1>>) \o
     line_plots(<<x1 + abs(x2 - x1), y1, x2, y2>>) \o
     line_plots(<<x2, y2, x1, y1 + abs(y2 - y1)>>) \o
     line_plots(<<x1, y1 + abs(y2 - y1), x1, y1>>)

\* ------------------------------------------------------------- the output
NoOut == [err |-> "", name |-> "", rows |-> << >>, ruler |-> << >>]

ErrNotInitialized == "Grid isn't initialized"
ErrAlreadyInitialized == "Grid has already been initialized"
ErrInvalid == "Invalid command"

\* The ruler digit printed for index i.
Ruler(i) == CRem(CRem(9 - i, wrap) + wrap, wrap)

\* ------------------------------------------------- how a handler can end
\* The handler returns to main's loop.
Returns(st, o, cells, flt) ==
  /\ state' = st
  /\ out' = o
  /\ plotted' = cells
  /\ fault' = flt
  /\ pc' = "ready"

\* An access outside the allocated storage ends the process (a segmentation
\* fault): nothing the handler printed or wrote is seen again.
Killed ==
  /\ state' = state
  /\ out' = NoOut
  /\ plotted' = {}
  /\ fault' = TRUE
  /\ pc' = "crashed"

\* printf("error: ...") and return.
Report(msg, name) ==
  /\ Returns(state, [NoOut EXCEPT !.err = msg, !.name = name], {}, FALSE)
  /\ UNCHANGED <<character, width, height, initialized>>

\* A handler that only plots: every call in pts, in order.
Draw(pts) ==
  LET flt == Faulty(state, pts)
  IN /\ UNCHANGED <<character, width, height, initialized>>
     /\ \/ Returns(plot_seq(state, pts), NoOut, Assigned(pts), flt)
        \/ flt /\ Killed

\* st with ' ' stored in st[i][j] for every i in I and j in J.
Fill(st, I, J) ==
  [i \in DOMAIN st |->
     [j \in DOMAIN st[i] |-> IF i \in I /\ j \in J THEN SPACE ELSE st[i][j]]]

\* ---------------------------------------------------------- the handlers
character_op(args) ==
  /\ character' = ToChar(args[1])
  /\ Returns(state, NoOut, {}, FALSE)
  /\ UNCHANGED <<width, height, initialized>>

circle(args) ==
  IF ~initialized THEN Report(ErrNotInitialized, "")
  ELSE Draw(bresenham_circle(args[1], args[2], args[3]))

clear ==
  LET I == 0..(height - 1)
      J == 0..(width - 1)
      flt == \E i \in I, j \in J : ~Valid(state, i, j)
  IN /\ UNCHANGED <<character, width, height, initialized>>
     /\ \/ Returns(Fill(state, I, J), NoOut, {}, flt)
        \/ flt /\ Killed

display ==
  IF ~initialized THEN Report(ErrNotInitialized, "")
  ELSE LET Unreadable ==
             {r \in (0..(height - 1)) \X (0..(width - 1)) :
                CellOf(state, r[1], r[2]) = Indeterminate}
       IN /\ UNCHANGED <<character, width, height, initialized>>
          /\ \/ \E g \in [Unreadable -> Bytes] :
                  LET Read(j, i) == IF <<j, i>> \in Unreadable
                                    THEN g[<<j, i>>] ELSE state[j][i]
                      rows == [i \in 1..width |->
                                 <<Ruler(i - 1),
                                   [j \in 1..height |-> Read(j - 1, i - 1)]>>]
                      ruler == [i \in 1..width |-> Ruler(i - 1)]
                  IN Returns(state,
                             [NoOut EXCEPT !.rows = rows, !.ruler = ruler],
                             {}, Unreadable # {})
             \/ Unreadable # {} /\ Killed

\* grid() without its guard against a second initialization.
grid_again(args) ==
  LET w == args[1]
      h == args[2]
      alloc == [i \in 0..(w - 1) |->
                  IF i < h THEN [j \in 0..(h - 1) |-> Indeterminate]
                           ELSE Garbage]
      I == 0..(h - 1)
      J == 0..(w - 1)
      flt == \/ \E i \in I : i \notin DOMAIN alloc
             \/ \E i \in I, j \in J : ~Valid(alloc, i, j)
  IN \/ /\ Returns(Fill(alloc, I, J), NoOut, {}, flt)
        /\ width' = w
        /\ height' = h
        /\ initialized' = TRUE
        /\ UNCHANGED character
     \/ /\ flt
        /\ Killed
        /\ UNCHANGED <<character, width, height, initialized>>

grid(args) ==
  LET w == args[1]
      h == args[2]
      alloc == [i \in 0..(w - 1) |->
                  IF i < h THEN [j \in 0..(h - 1) |-> Indeterminate]
                           ELSE Garbage]
      I == 0..(h - 1)
      J == 0..(w - 1)
      flt == \/ \E i \in I : i \notin DOMAIN alloc
             \/ \E i \in I, j \in J : ~Valid(alloc, i, j)
  IN IF initialized THEN Report(ErrAlreadyInitialized, "")
     ELSE \/ /\ Returns(Fill(alloc, I, J), NoOut, {}, flt)
             /\ width' = w
             /\ height' = h
             /\ initialized' = TRUE
             /\ UNCHANGED character
          \/ /\ flt
             /\ Killed
             /\ UNCHANGED <<character, width, height, initialized>>

line(args) ==
  IF ~initialized THEN Report(ErrNotInitialized, "")
  ELSE Draw(line_plots(args))

point(args) ==
  IF ~initialized THEN Report(ErrNotInitialized, "")
  ELSE Draw(<< <<args[1], args[2]>> >>)

rectangle(args) ==
  IF ~initialized THEN Report(ErrNotInitialized, "")
  ELSE Draw(rectangle_plots(args))

\* case INVALID printing the name of the command kind, not the token.
invalid_kind(name) == Report(ErrInvalid, "INVALID")

\* case INVALID of eval's switch.
invalid(name) == Report(ErrInvalid, name)

\* case END of eval's switch: exit(0).
end ==
  /\ pc' = "stopped"
  /\ out' = NoOut
  /\ plotted' = {}
  /\ fault' = FALSE
  /\ UNCHANGED <<state, character, width, height, initialized>>

\* -------------------------------------------------------- the interpreter
eval(o) ==
  CASE o.cmd = "CHAR" -> character_op(o.args)
    [] o.cmd = "CIRCLE" -> circle(o.args)
    [] o.cmd = "CLEAR" -> clear
    [] o.cmd = "DISPLAY" -> display
    [] o.cmd = "END" -> end
    [] o.cmd = "GRID" -> grid(o.args)
    [] o.cmd = "INVALID" -> invalid(o.name)
    [] o.cmd = "LINE" -> line(o.args)
    [] o.cmd = "POINT" -> point(o.args)
    [] o.cmd = "RECTANGLE" -> rectangle(o.args)

\* main's loop is about to read a line.
Reading == pc = "ready" /\ steps < MaxSteps

\* One turn of main's loop on an input line that parses to (name, args).
Cycle(name, args) ==
  /\ steps' = steps + 1
  /\ LET o == Operation(name, args)
     IN op' = o /\ eval(o)

Init ==
  /\ state = NULL
  /\ character = STAR
  /\ width = 0
  /\ height = 0
  /\ initialized = FALSE
  /\ op = Operation("", <<0, 0, 0, 0>>)
  /\ out = NoOut
  /\ plotted = {}
  /\ fault = FALSE
  /\ pc = "ready"
  /\ steps = 0

ReadChar ==
  /\ Reading
  /\ \E c \in CharArgs : Cycle("CHAR", <<c, 0, 0, 0>>)
ReadCircle ==
  /\ Reading
  /\ \E x \in ShapeCoords, y \in ShapeCoords, r \in Radii :
       Cycle("CIRCLE", <<x, y, r, 0>>)
ReadClear ==
  /\ Reading
  /\ Cycle("CLEAR", <<0, 0, 0, 0>>)
ReadDisplay ==
  /\ Reading
  /\ Cycle("DISPLAY", <<0, 0, 0, 0>>)
ReadEnd ==
  /\ Reading
  /\ Cycle("END", <<0, 0, 0, 0>>)
ReadGrid ==
  /\ Reading
  /\ \E w \in Dims, h \in Dims : Cycle("GRID", <<w, h, 0, 0>>)
ReadInvalid ==
  /\ Reading
  /\ \E n \in InvalidNames : Cycle(n, <<0, 0, 0, 0>>)
ReadLine ==
  /\ Reading
  /\ \E x1 \in ShapeCoords, y1 \in ShapeCoords,
        x2 \in ShapeCoords, y2 \in ShapeCoords :
       Cycle("LINE", <<x1, y1, x2, y2>>)
ReadPoint ==
  /\ Reading
  /\ \E x \in PointCoords, y \in PointCoords : Cycle("POINT", <<x, y, 0, 0>>)
\* Rectangles are given by their lower and upper corner.
ReadRectangle ==
  /\ Reading
  /\ \E x1 \in ShapeCoords, y1 \in ShapeCoords :
       \E x2 \in {x \in ShapeCoords : x1 <= x},
          y2 \in {y \in ShapeCoords : y1 <= y} :
         Cycle("RECTANGLE", <<x1, y1, x2, y2>>)

Next ==
  \/ ReadChar
  \/ ReadCircle
  \/ ReadClear
  \/ ReadDisplay
  \/ ReadEnd
  \/ ReadGrid
  \/ ReadInvalid
  \/ ReadLine
  \/ ReadPoint
  \/ ReadRectangle

Spec == Init /\ [][Next]_vars

\* ================================================================ claims
Max(a, b) == IF a >= b THEN a ELSE b

\* The cells of the canvas, by its dimensions.
Cells == (0..(width - 1)) \X (0..(height - 1))

Cell(x, y) == CellOf(state, x, y)

\* Some cell shows a drawn character.
Drawn == \E c \in Cells : Cell(c[1], c[2]) \notin {SPACE, Indeterminate}

\* C1: while no GRID command has run, POINT, LINE, CIRCLE, RECTANGLE, DISPLAY
\* and CLEAR each report "Grid isn't initialized" and leave the canvas (the
\* buffer, the dimensions, the flag, the draw character) as it was.
C1_Claim ==
  [][(~initialized /\
      op'.cmd \in {"POINT", "LINE", "CIRCLE", "RECTANGLE", "DISPLAY", "CLEAR"})
       => /\ out'.err = ErrNotInitialized
          /\ UNCHANGED <<state, character, width, height, initialized>>]_vars

\* C2: LINE between two endpoints inside an initialized canvas assigns
\* exactly 1 + max(|x2-x1|, |y2-y1|) distinct cells, both endpoints included.
C2_Claim ==
  (pc = "ready" /\ initialized /\ op.cmd = "LINE" /\
   in_bounds(op.args[1], op.args[2]) /\ in_bounds(op.args[3], op.args[4]))
    => /\ Cardinality(plotted) =
            1 + Max(abs(op.args[3] - op.args[1]), abs(op.args[4] - op.args[2]))
       /\ <<op.args[1], op.args[2]>> \in plotted
       /\ <<op.args[3], op.args[4]>> \in plotted

\* C3: a GRID w,h that does not report leaves an initialized canvas whose
\* w*h cells all hold the space character, and neither GRID nor any later
\* plot, CLEAR or DISPLAY touches memory outside the storage GRID allocated.
C3_Claim ==
  /\ (op.cmd = "GRID" /\ out.err = "")
       => /\ pc = "ready"
          /\ initialized
          /\ width = op.args[1]
          /\ height = op.args[2]
          /\ \A c \in Cells : Cell(c[1], c[2]) = SPACE
  /\ op.cmd \in {"GRID", "POINT", "LINE", "CIRCLE", "RECTANGLE", "CLEAR",
                 "DISPLAY"}
       => ~fault

\* C4: on an initialized canvas GRID reports "Grid has already been
\* initialized" and changes neither the buffer nor the dimensions, the flag or
\* the draw character; once initialized, the canvas keeps its dimensions and
\* its storage whatever command comes.
C4_SecondGridRejected ==
  [][/\ (initialized /\ op'.cmd = "GRID")
          => /\ out'.err = ErrAlreadyInitialized
             /\ UNCHANGED <<state, character, width, height, initialized>>
     /\ initialized
          => /\ initialized'
             /\ width' = width
             /\ height' = height
             /\ DOMAIN state' = DOMAIN state]_vars

\* A second GRID, rejected on a canvas that has been drawn on.
C4_Witness ==
  /\ op.cmd = "GRID"
  /\ out.err = ErrAlreadyInitialized
  /\ initialized
  /\ width # op.args[1]
  /\ Drawn

\* C5: CLEAR on an initialized w*h canvas leaves the space character in every
\* one of its w*h cells and keeps dimensions, flag and draw character.
C5_Claim ==
  [][(initialized /\ op'.cmd = "CLEAR")
       => /\ \A c \in Cells : CellOf(state', c[1], c[2]) = SPACE
          /\ UNCHANGED <<character, width, height, initialized>>]_vars

\* C6: DISPLAY on an initialized w*h canvas prints h rows, row y being the
\* ruler digit of y and then the cells (0,y) .. (w-1,y), and then a ruler of
\* w digits.
C6_Claim ==
  (pc = "ready" /\ initialized /\ op.cmd = "DISPLAY")
    => /\ Len(out.rows) = height
       /\ \A y \in 0..(height - 1) :
            out.rows[y + 1] = <<Ruler(y), [x \in 1..width |-> Cell(x - 1, y)]>>
       /\ Len(out.ruler) = width

\* C7: on an initialized canvas POINT x,y inside the canvas sets cell (x,y) to
\* the draw character and changes no other cell; POINT outside the canvas
\* changes no cell and reports nothing.
C7_Claim ==
  [][(initialized /\ op'.cmd = "POINT")
       => LET x == op'.args[1]
              y == op'.args[2]
          IN IF in_bounds(x, y)
             THEN /\ CellOf(state', x, y) = character
                  /\ \A c \in Cells \ {<<x, y>>} :
                       CellOf(state', c[1], c[2]) = Cell(c[1], c[2])
             ELSE state' = state /\ out'.err = ""]_vars

\* C8: an unrecognized command, DISPLAY and CHAR change neither a cell nor
\* the dimensions nor the flag, initialized or not; the first two keep the
\* draw character, CHAR sets it to its argument, and the unrecognized
\* command reports "Invalid command" with the token as it was typed.
C8_NoCanvasMutation ==
  [][(op'.cmd \in {"INVALID", "DISPLAY", "CHAR"})
       => /\ UNCHANGED <<state, width, height, initialized>>
          /\ op'.cmd # "CHAR" => character' = character
          /\ op'.cmd = "CHAR" => character' = ToChar(op'.args[1])
          /\ op'.cmd = "INVALID"
               => out'.err = ErrInvalid /\ out'.name = op'.name]_vars

\* An unrecognized command reported on a canvas that has been drawn on.
C8_Witness ==
  /\ op.cmd = "INVALID"
  /\ op.name \in InvalidNames
  /\ out.err = ErrInvalid
  /\ out.name = op.name
  /\ initialized
  /\ Drawn

\* The perimeter of the box [x1,x2] x [y1,y2].
Perimeter(x1, y1, x2, y2) ==
  {c \in (x1..x2) \X (y1..y2) : c[1] \in {x1, x2} \/ c[2] \in {y1, y2}}

\* C9: RECTANGLE with x1 <= x2 and y1 <= y2 inside an initialized canvas
\* assigns exactly the cells of the box's perimeter.
C9_Claim ==
  (pc = "ready" /\ initialized /\ op.cmd = "RECTANGLE" /\
   op.args[1] <= op.args[3] /\ op.args[2] <= op.args[4] /\
   in_bounds(op.args[1], op.args[2]) /\ in_bounds(op.args[3], op.args[4]))
    => plotted = Perimeter(op.args[1], op.args[2], op.args[3], op.args[4])

====
